---------------------------- MODULE Spec2Model ----------------------------
(***************************************************************************)
(* Model of convert_to_sqlite.py (GNESTE): the in-memory DB of countries,  *)
(* technologies, variables and price entries, filled from tabular files    *)
(* and exported to an SQLite artifact.                                     *)
(*                                                                         *)
(* Conventions.  A str on which the code calls endswith / += (a file name) *)
(* is a sequence of one-character strings; any other cell is an opaque     *)
(* string.  Floats are the strings of their literals ("0.0", "5.0"), the   *)
(* code only copies them.  A Python dict is the sequence of its items in   *)
(* insertion order.  The dataclass instances are never mutated after       *)
(* construction, so a reference to one is modelled by its value.           *)
(***************************************************************************)
EXTENDS Integers, Sequences, FiniteSets, TLC

(***************************************************************************)
(* Bounds of the model.                                                    *)
(***************************************************************************)
\* rows one DB object processes over its life
MaxRows == 2
\* save_sqlite calls on one DB object
MaxSaves == 2
\* length of the driver's file list
MaxFiles == 2
\* fragments a destination name is built from
MaxFrags == 2

(***************************************************************************)
(* Cell values.                                                            *)
(***************************************************************************)
\* the missing marker of the tabular reader (float nan); pd.isna is true of it only
NaN == "nan"

isna(x) == x = NaN

\* the class attribute Entry._key: uuid4().hex is evaluated once, when the
\* class body runs; the values one process can draw
Uuids == {"uuid-a", "uuid-b"}

(***************************************************************************)
(* File names: sequences of characters.                                    *)
(***************************************************************************)
DotSqlite == <<".", "s", "q", "l", "i", "t", "e">>
DotCsv == <<".", "c", "s", "v">>
DotXlsx == <<".", "x", "l", "s", "x">>
DotJson == <<".", "j", "s", "o", "n">>

\* str.endswith
endswith(s, suffix) ==
    /\ Len(s) >= Len(suffix)
    /\ SubSeq(s, Len(s) - Len(suffix) + 1, Len(s)) = suffix


VARIABLES
    Entry_key,  \* the class attribute Entry._key (the default of every instance)
    db,         \* the DB object: countries, technologies, variables, entries
    calls,      \* instrumentation: how often each add_* method has been called
    log,        \* instrumentation: the source rows processed so far, in order
    disk,       \* the SQLite artifacts: file name -> table name -> rows
    last,       \* the last call on the DB: its arguments and its outcome
    files,      \* __main__: the ordered file list
    idx,        \* __main__: position of the for loop in files
    pc,         \* the caller: "api" (any calls), __main__'s "loop", "save",
                \* "done"; "error" once an exception has ended the run
    fname       \* naming: a destination name, then what save_sqlite makes of it

vars == <<Entry_key, db, calls, log, disk, last, files, idx, pc, fname>>

(***************************************************************************)
(* The dataclasses.                                                        *)
(***************************************************************************)
\* a variant that keeps a missing ISO2 cell
Country_keep_missing(name, ISO2, ISO3, continent) ==
    [name |-> name, ISO2 |-> ISO2, ISO3 |-> IF isna(ISO3) THEN name ELSE ISO3,
     continent |-> continent]

Country(name, ISO2, ISO3, continent) ==
    [name |-> name,
     ISO2 |-> IF isna(ISO2) THEN name ELSE ISO2,
     ISO3 |-> IF isna(ISO3) THEN name ELSE ISO3,
     continent |-> continent]

Country_key(self) == self.ISO3

Technology(name, ID, category) == [name |-> name, ID |-> ID, category |-> category]

Technology_key(self) == self.name

Variable(name, short_name, unit) == [name |-> name, short_name |-> short_name, unit |-> unit]

Variable_key(self) == self.name

\* _key is not passed by any caller: every instance gets the class default
Entry(technology, country, variable, power, energy, source, notes, currency, year, price) ==
    [technology |-> technology, country |-> country, variable |-> variable,
     power |-> power, energy |-> energy, source |-> source, notes |-> notes,
     currency |-> currency, year |-> year, price |-> price, _key |-> Entry_key]

(***************************************************************************)
(* dict: the sequence of its items [k, v] in insertion order.              *)
(***************************************************************************)
EmptyDict == <<>>

Keys(d) == {d[i].k : i \in 1..Len(d)}

Get(d, key) == (CHOOSE i \in 1..Len(d) : d[i].k = key) \* d[key], key in d
Lookup(d, key) == d[Get(d, key)].v

\* a variant that keeps the first value of a key (dict.setdefault)
DictSet_setdefault(d, key, value) ==
    IF key \in Keys(d) THEN d ELSE Append(d, [k |-> key, v |-> value])

\* d[key] = value: a new key goes last, an old key keeps its place
DictSet(d, key, value) ==
    IF key \in Keys(d)
    THEN [i \in 1..Len(d) |-> IF d[i].k = key THEN [k |-> key, v |-> value] ELSE d[i]]
    ELSE Append(d, [k |-> key, v |-> value])

(***************************************************************************)
(* The tabular reader's frames.  A frame is its column headers, in column  *)
(* order, and its rows; a header is a str (its text) or a number (its     *)
(* value).  row.cells holds the cells under the numeric headers, the only  *)
(* ones the code reads by a computed label.                                *)
(***************************************************************************)
StrCol(name) == [type |-> "str", text |-> name, value |-> 0]
IntCol(n) == [type |-> "int", text |-> "", value |-> n]

NamedColumns ==
    <<StrCol("Technology"), StrCol("ID"), StrCol("Category"), StrCol("Country"),
      StrCol("ISO2"), StrCol("ISO3"), StrCol("Continent"), StrCol("Variable"),
      StrCol("Code"), StrCol("Unit"), StrCol("Source"), StrCol("Notes"),
      StrCol("Currency")>>

\* isinstance(x, (int, float))
IsNumeric(col) == col.type \in {"int", "float"}

\* years = [int(x) for x in df.columns.values if isinstance(x, (int, float))]
years_of(columns) ==
    LET numeric == SelectSeq(columns, IsNumeric)
    IN  [j \in 1..Len(numeric) |-> numeric[j].value]

(***************************************************************************)
(* class DB.  self is the record of the object's four fields plus the      *)
(* call counters.                                                          *)
(***************************************************************************)
DB_init ==
    [countries |-> EmptyDict, technologies |-> EmptyDict, variables |-> EmptyDict,
     entries |-> <<>>]

NoCalls ==
    [add_technology |-> 0, add_country |-> 0, add_variable |-> 0, add_entry |-> 0,
     save_sqlite |-> 0]

\* the DB object with its counters, as the methods below take and return it
Self ==
    [countries |-> db.countries, technologies |-> db.technologies,
     variables |-> db.variables, entries |-> db.entries, calls |-> calls]

Fields(self) ==
    [countries |-> self.countries, technologies |-> self.technologies,
     variables |-> self.variables, entries |-> self.entries]

\* a variant that files the country under its name
add_country_by_name(self, country) ==
    [self EXCEPT !.countries = DictSet(@, country.name, country),
                 !.calls.add_country = @ + 1]

add_country(self, country) ==
    [self EXCEPT !.countries = DictSet(@, Country_key(country), country),
                 !.calls.add_country = @ + 1]

add_technology(self, technology) ==
    [self EXCEPT !.technologies = DictSet(@, Technology_key(technology), technology),
                 !.calls.add_technology = @ + 1]

add_variable(self, variable) ==
    [self EXCEPT !.variables = DictSet(@, Variable_key(variable), variable),
                 !.calls.add_variable = @ + 1]

\* a variant that puts the entry first (list.insert(0, entry))
add_entry_first(self, entry) ==
    [self EXCEPT !.entries = <<entry>> \o @,
                 !.calls.add_entry = @ + 1]

add_entry(self, entry) ==
    [self EXCEPT !.entries = Append(@, entry),
                 !.calls.add_entry = @ + 1]

\* a variant without the pd.isna test
RECURSIVE add_years_unchecked(_, _, _, _, _, _, _)
add_years_unchecked(self, row, tech, country, var, years, j) ==
    IF j > Len(years) THEN self
    ELSE add_years_unchecked(
             add_entry(self, Entry(tech, country, var, "0.0", "0.0", row.Source,
                                   row.Notes, row.Currency, years[j],
                                   row.cells[years[j]])),
             row, tech, country, var, years, j + 1)

\* the inner loop of add_dataframe: for year in years, from position j on
RECURSIVE add_years(_, _, _, _, _, _, _)
add_years(self, row, tech, country, var, years, j) ==
    IF j > Len(years) THEN self
    ELSE LET year == years[j]
             price == row.cells[year]
             next == IF ~isna(price)
                     THEN add_entry(self,
                              Entry(tech, country, var, "0.0", "0.0",
                                    row.Source, row.Notes, row.Currency, year, price))
                     ELSE self
         IN  add_years(next, row, tech, country, var, years, j + 1)

\* the body of add_dataframe's loop for one row of df
add_row(self, df, row) ==
    LET tech == Technology(row.Technology, row.ID, row.Category)
        country == Country(row.Country, row.ISO2, row.ISO3, row.Continent)
        var == Variable(row.Variable, row.Code, row.Unit)
        s1 == add_technology(self, tech)
        s2 == add_country(s1, country)
        s3 == add_variable(s2, var)
        years == years_of(df.columns)
    IN  add_years(s3, row, tech, country, var, years, 1)

\* for i, row in df.iterrows(), from row i on
RECURSIVE add_rows(_, _, _)
add_rows(self, df, i) ==
    IF i > Len(df.rows) THEN self
    ELSE add_rows(add_row(self, df, df.rows[i]), df, i + 1)

add_dataframe(self, df) == add_rows(self, df, 1)



(***************************************************************************)
(* The input universe: rows that differ from one base row in at most one   *)
(* group of columns, under three column layouts.                           *)
(***************************************************************************)
BaseRow ==
    [Technology |-> "Solar", ID |-> "T1", Category |-> "Generation",
     Country |-> "Spain", ISO2 |-> "ES", ISO3 |-> "ESP", Continent |-> "Europe",
     Variable |-> "CAPEX", Code |-> "CPX", Unit |-> "USD/kW",
     Source |-> "IEA", Notes |-> NaN, Currency |-> "USD"]

Descriptors ==
    {BaseRow,
     [BaseRow EXCEPT !.Category = "Storage"],
     [BaseRow EXCEPT !.Technology = "Wind", !.ID = "T2"],
     [BaseRow EXCEPT !.ISO2 = NaN],
     [BaseRow EXCEPT !.ISO3 = NaN],
     [BaseRow EXCEPT !.ISO2 = NaN, !.ISO3 = NaN],
     [BaseRow EXCEPT !.Country = NaN, !.ISO2 = NaN],
     [BaseRow EXCEPT !.Unit = "EUR/kW"],
     [BaseRow EXCEPT !.Variable = "OPEX", !.Code = "OPX"]}

\* the price a populated cell of a year column holds
PriceOf(year) == IF year = 2020 THEN "5.0" ELSE "7.0"

WithCells(d, cells) ==
    [Technology |-> d.Technology, ID |-> d.ID, Category |-> d.Category,
     Country |-> d.Country, ISO2 |-> d.ISO2, ISO3 |-> d.ISO3, Continent |-> d.Continent,
     Variable |-> d.Variable, Code |-> d.Code, Unit |-> d.Unit,
     Source |-> d.Source, Notes |-> d.Notes, Currency |-> d.Currency, cells |-> cells]

YearColumns == {2020, 2021}

BaseCells == (2020 :> PriceOf(2020)) @@ (2021 :> NaN)

CellChoices == {c \in [YearColumns -> {NaN, "5.0", "7.0"}] :
                   \A y \in YearColumns : c[y] \in {NaN, PriceOf(y)}}

\* rows of a frame with both year columns
YearRows ==
    {WithCells(d, BaseCells) : d \in Descriptors}
        \cup {WithCells(BaseRow, c) : c \in CellChoices}

\* rows of a frame whose year headers were read as text: no cell is read
TextRows == {WithCells(d, <<>>) : d \in {BaseRow, [BaseRow EXCEPT !.ISO3 = NaN]}}

Layouts ==
    {[columns |-> NamedColumns \o <<IntCol(2020), IntCol(2021)>>, rows |-> YearRows],
     [columns |-> NamedColumns \o <<IntCol(2021), IntCol(2020)>>,
      rows |-> {WithCells(BaseRow, c) : c \in {d \in CellChoices : ~isna(d[2021])}}],
     [columns |-> NamedColumns \o <<StrCol("2020"), StrCol("2021")>>, rows |-> TextRows]}

RECURSIVE SeqsUpTo(_, _)
SeqsUpTo(S, n) ==
    IF n = 0 THEN {<<>>}
    ELSE LET shorter == SeqsUpTo(S, n - 1)
         IN  shorter \cup {Append(q, x) : q \in {r \in shorter : Len(r) = n - 1}, x \in S}

\* the frames a caller passes: one or two rows of one layout
Frames ==
    UNION {{[columns |-> l.columns, rows |-> r] : r \in SeqsUpTo(l.rows, 2) \ {<<>>}} :
              l \in Layouts}


(***************************************************************************)
(* The input files.                                                        *)
(***************************************************************************)
FileA == <<"a">> \o DotXlsx   \* a workbook with a Data sheet
FileB == <<"b">> \o DotCsv    \* delimited text: every header is read as text
FileC == <<"c">> \o DotJson   \* exists, neither .csv nor .xlsx
FileD == <<"d">> \o DotXlsx   \* does not exist
FileE == <<"e">> \o DotJson   \* does not exist, and is no .csv or .xlsx either

FileNames == {FileA, FileB, FileC, FileD, FileE}

\* what the reader yields for each file that exists
FileSystem ==
    (FileA :> [columns |-> NamedColumns \o <<IntCol(2020), IntCol(2021)>>,
               rows |-> <<WithCells([BaseRow EXCEPT !.ISO2 = NaN, !.ISO3 = NaN], BaseCells),
                          WithCells([BaseRow EXCEPT !.Category = "Storage"],
                                    (2020 :> NaN) @@ (2021 :> NaN))>>])
    @@ (FileB :> [columns |-> NamedColumns \o <<StrCol("2020"), StrCol("2021")>>,
                  rows |-> <<WithCells(BaseRow, <<>>)>>])
    @@ (FileC :> [columns |-> <<>>, rows |-> <<>>])

\* os.path.exists
exists(file_name) == file_name \in DOMAIN FileSystem

\* pd.read_csv(file_name, skiprows=1, header=1)
read_csv(file_name) == FileSystem[file_name]

\* pd.read_excel(file_name, sheet_name="Data")
read_excel(file_name) == FileSystem[file_name]

NoFrame == [columns |-> <<>>, rows |-> <<>>]

\* a variant that skips a file of another type instead of raising
add_file_skip(self, file_name) ==
    IF exists(file_name)
    THEN IF endswith(file_name, DotCsv) \/ endswith(file_name, DotXlsx)
         THEN [self |-> add_dataframe(self, FileSystem[file_name]), exc |-> "none",
               df |-> FileSystem[file_name]]
         ELSE [self |-> self, exc |-> "none", df |-> [columns |-> <<>>, rows |-> <<>>]]
    ELSE [self |-> self, exc |-> "File not exist", df |-> [columns |-> <<>>, rows |-> <<>>]]

\* the result holds the object, the exception raised ("none": returned) and
\* the frame that was read
add_file(self, file_name) ==
    IF exists(file_name)
    THEN IF endswith(file_name, DotCsv)
         THEN [self |-> add_dataframe(self, read_csv(file_name)), exc |-> "none",
               df |-> read_csv(file_name)]
         ELSE IF endswith(file_name, DotXlsx)
         THEN [self |-> add_dataframe(self, read_excel(file_name)), exc |-> "none",
               df |-> read_excel(file_name)]
         ELSE [self |-> self, exc |-> "File type not supported", df |-> NoFrame]
    ELSE [self |-> self, exc |-> "File not exist", df |-> NoFrame]

(***************************************************************************)
(* save_sqlite.  An artifact is the function from the names of its tables  *)
(* to their rows; disk maps the names of the artifacts that exist to them. *)
(***************************************************************************)
NoTables == [t \in {} |-> <<>>]

\* a variant that appends the extension to every name
save_file_name_always(file_name) == file_name \o DotSqlite

\* if not file_name.endswith(".sqlite"): file_name += '.sqlite'
save_file_name(file_name) ==
    IF ~endswith(file_name, DotSqlite) THEN file_name \o DotSqlite ELSE file_name

\* pd.DataFrame.from_dict(d, orient='index'), written with index=False: one
\* row per item, in the dict's order, the dataclass fields as columns
from_dict(d) == [i \in 1..Len(d) |-> d[i].v]

entries2(self) ==
    [i \in 1..Len(self.entries) |->
        LET e == self.entries[i]
        IN  Entry(Technology_key(e.technology), Country_key(e.country),
                  Variable_key(e.variable), e.power, e.energy, e.source, e.notes,
                  e.currency, e.year, e.price)]

\* sqlite3.connect: the artifact is created when it does not exist
connect(d, file_name) ==
    IF file_name \in DOMAIN d THEN d ELSE (file_name :> NoTables) @@ d

\* a variant with if_exists='replace'
to_sql_replace(c, df, name) ==
    IF c.exc # "none" THEN c
    ELSE IF df = <<>>
    THEN [c EXCEPT !.exc = "OperationalError"]
    ELSE [c EXCEPT !.disk[c.file_name] = [t \in DOMAIN @ \cup {name} |->
                                             IF t = name THEN df ELSE @[t]],
                   !.written = Append(@, name)]

\* df.to_sql(name, conn, index=False) at the connection state c; after an
\* exception the later statements are not reached.  if_exists defaults to
\* 'fail': an existing table of that name is a ValueError.  A frame built
\* from an empty dict or list has no columns, and SQLite creates no table
\* without columns: the CREATE TABLE statement fails.  A table written is
\* committed by to_sql itself.
to_sql(c, df, name) ==
    IF c.exc # "none" THEN c
    ELSE IF name \in DOMAIN c.disk[c.file_name]
    THEN [c EXCEPT !.exc = "ValueError"]
    ELSE IF df = <<>>
    THEN [c EXCEPT !.exc = "OperationalError"]
    ELSE [c EXCEPT !.disk[c.file_name] = (name :> df) @@ @,
                   !.written = Append(@, name)]

\* the four frames save_sqlite computes before it connects
frames_of(self) ==
    [country |-> from_dict(self.countries), vars |-> from_dict(self.variables),
     tech |-> from_dict(self.technologies), entries |-> entries2(self)]

\* the four to_sql statements, in their order
write_tables(c0, frames) ==
    LET c1 == to_sql(c0, frames.country, "country")
        c2 == to_sql(c1, frames.vars, "vars")
        c3 == to_sql(c2, frames.tech, "tech")
    IN  to_sql(c3, frames.entries, "entries")

\* a variant that empties self.entries as it converts them
save_sqlite_drain(self, d, file_name) ==
    LET name == save_file_name(file_name)
        frames == frames_of(self)
        c == write_tables([disk |-> connect(d, name), file_name |-> name,
                           exc |-> "none", written |-> <<>>], frames)
    IN  [self |-> [self EXCEPT !.calls.save_sqlite = @ + 1, !.entries = <<>>],
         disk |-> c.disk, exc |-> c.exc, file_name |-> name, frames |-> frames,
         written |-> c.written]

\* the result holds the object, the disk, the exception raised, the name
\* used, the four frames computed and the tables written, in order
save_sqlite(self, d, file_name) ==
    LET name == save_file_name(file_name)
        frames == frames_of(self)
        c == write_tables([disk |-> connect(d, name), file_name |-> name,
                           exc |-> "none", written |-> <<>>], frames)
    IN  [self |-> [self EXCEPT !.calls.save_sqlite = @ + 1],
         disk |-> c.disk, exc |-> c.exc, file_name |-> name, frames |-> frames,
         written |-> c.written]

(***************************************************************************)
(* The state machine.                                                      *)
(***************************************************************************)
NoFrames == [country |-> <<>>, vars |-> <<>>, tech |-> <<>>, entries |-> <<>>]

\* the record of a call: the method, the file name given and the one used,
\* the exception, and for save_sqlite the frames computed and tables written
Call(op, file_name, used, exc, frames, written) ==
    [op |-> op, file_name |-> file_name, used |-> used, exc |-> exc,
     frames |-> frames, written |-> written]

\* the source rows of a frame, as the log keeps them
LogOf(df) == [i \in 1..Len(df.rows) |-> [row |-> df.rows[i], columns |-> df.columns]]

\* destination names a caller passes, and the one __main__ passes
Out == <<"o", "u", "t">>
OutNames == {Out, Out \o DotSqlite}
Gneste == <<"G", "N", "E", "S", "T", "E">> \o DotSqlite

\* what the destination may hold before the run: nothing, or an artifact
\* of that name with tables of another origin
ForeignRows == <<[origin |-> "foreign"]>>
TableNames == {"country", "vars", "tech", "entries"}
NoDisk == [f \in {} |-> NoTables]
InitialDisks(name) ==
    {NoDisk} \cup {(name :> [t \in T |-> ForeignRows]) : T \in {{"tech"}, TableNames}}

InitObject ==
    /\ Entry_key \in Uuids
    /\ db = DB_init
    /\ calls = NoCalls
    /\ log = <<>>
    /\ last = Call("init", <<>>, <<>>, "none", NoFrames, <<>>)

\* a caller of the class: any calls in any order, until one raises (no
\* code of the repository catches an exception)
Init ==
    /\ InitObject
    /\ disk \in InitialDisks(Out \o DotSqlite)
    /\ files = <<>>
    /\ idx = 0
    /\ pc = "api"
    /\ fname = <<>>

AddDataframe(df) ==
    /\ pc = "api"
    /\ Len(log) + Len(df.rows) <= MaxRows
    /\ LET self == add_dataframe(Self, df)
       IN  /\ db' = Fields(self)
           /\ calls' = self.calls
    /\ log' = log \o LogOf(df)
    /\ last' = Call("add_dataframe", <<>>, <<>>, "none", NoFrames, <<>>)
    /\ UNCHANGED <<Entry_key, disk, files, idx, pc, fname>>

AddFile(file_name) ==
    /\ pc = "api"
    /\ LET r == add_file(Self, file_name)
       IN  /\ Len(log) + Len(r.df.rows) <= MaxRows
           /\ db' = Fields(r.self)
           /\ calls' = r.self.calls
           /\ log' = log \o LogOf(r.df)
           /\ last' = Call("add_file", file_name, <<>>, r.exc, NoFrames, <<>>)
           /\ pc' = IF r.exc # "none" THEN "error" ELSE "api"
    /\ UNCHANGED <<Entry_key, disk, files, idx, fname>>

SaveSqlite(file_name) ==
    /\ pc = "api"
    /\ calls.save_sqlite < MaxSaves
    /\ LET r == save_sqlite(Self, disk, file_name)
       IN  /\ db' = Fields(r.self)
           /\ calls' = r.self.calls
           /\ disk' = r.disk
           /\ last' = Call("save_sqlite", file_name, r.file_name, r.exc, r.frames,
                           r.written)
           /\ pc' = IF r.exc # "none" THEN "error" ELSE "api"
    /\ UNCHANGED <<Entry_key, log, files, idx, fname>>

Next ==
    \/ \E df \in Frames : AddDataframe(df)
    \/ \E file_name \in FileNames : AddFile(file_name)
    \/ \E file_name \in OutNames : SaveSqlite(file_name)

Spec == Init /\ [][Next]_vars

(***************************************************************************)
(* __main__: db = DB(); for f_name in files: db.add_file(f_name);          *)
(* db.save_sqlite("GNESTE.sqlite").  An exception is not caught: the run   *)
(* ends where it is raised.  The list is any list of the input files.      *)
(***************************************************************************)
MainInit ==
    /\ InitObject
    /\ disk \in InitialDisks(Gneste)
    /\ files \in SeqsUpTo(FileNames, MaxFiles) \ {<<>>}
    /\ idx = 1
    /\ pc = "loop"
    /\ fname = <<>>

MainAddFile ==
    /\ pc = "loop"
    /\ LET r == add_file(Self, files[idx])
       IN  /\ db' = Fields(r.self)
           /\ calls' = r.self.calls
           /\ log' = log \o LogOf(r.df)
           /\ last' = Call("add_file", files[idx], <<>>, r.exc, NoFrames, <<>>)
           /\ IF r.exc # "none"
              THEN pc' = "error" /\ idx' = idx
              ELSE /\ idx' = idx + 1
                   /\ pc' = IF idx + 1 > Len(files) THEN "save" ELSE "loop"
    /\ UNCHANGED <<Entry_key, disk, files, fname>>

MainSave ==
    /\ pc = "save"
    /\ LET r == save_sqlite(Self, disk, Gneste)
       IN  /\ db' = Fields(r.self)
           /\ calls' = r.self.calls
           /\ disk' = r.disk
           /\ last' = Call("save_sqlite", Gneste, r.file_name, r.exc, r.frames,
                           r.written)
           /\ pc' = IF r.exc # "none" THEN "error" ELSE "done"
    /\ UNCHANGED <<Entry_key, log, files, idx, fname>>

MainNext ==
    \/ MainAddFile
    \/ MainSave

MainSpec == MainInit /\ [][MainNext]_vars

(***************************************************************************)
(* The destination name alone: save_sqlite's first statement applied to a  *)
(* name, and again to what it made of it.  fname is the list of the names  *)
(* so far.                                                                 *)
(***************************************************************************)
Fragments ==
    {<<"d", "b">>, <<".">>, <<"s", "q", "l", "i", "t", "e">>, DotSqlite,
     <<".", "s", "q", "l", "i", "t">>, <<"e">>, <<".", "S", "Q", "L", "I", "T", "E">>}

RECURSIVE Concat(_)
Concat(q) == IF q = <<>> THEN <<>> ELSE Head(q) \o Concat(Tail(q))

DestNames == {Concat(q) : q \in SeqsUpTo(Fragments, MaxFrags)}

NameInit ==
    /\ InitObject
    /\ disk = NoDisk
    /\ files = <<>>
    /\ idx = 0
    /\ pc = "name"
    /\ fname \in {<<n>> : n \in DestNames}

NameStep ==
    /\ pc = "name"
    /\ Len(fname) < 3
    /\ fname' = Append(fname, save_file_name(fname[Len(fname)]))
    /\ UNCHANGED <<Entry_key, db, calls, log, disk, last, files, idx, pc>>

NameNext == NameStep

NameSpec == NameInit /\ [][NameNext]_vars


(***************************************************************************)
(* What the log says the DB must hold, stated from the rows alone.         *)
(***************************************************************************)
\* the years of a logged row whose cell is populated, in column order
PopulatedYears(lr) ==
    LET nums == SelectSeq(lr.columns, LAMBDA c : c.type # "str")
        pop == SelectSeq(nums, LAMBDA c : lr.row.cells[c.value] # NaN)
    IN  [j \in 1..Len(pop) |-> pop[j].value]

RowTechnology(r) == [name |-> r.Technology, ID |-> r.ID, category |-> r.Category]

RowCountryKey(r) == IF r.ISO3 = NaN THEN r.Country ELSE r.ISO3

RowCountry(r) ==
    [name |-> r.Country, ISO2 |-> IF r.ISO2 = NaN THEN r.Country ELSE r.ISO2,
     ISO3 |-> RowCountryKey(r), continent |-> r.Continent]

RowVariable(r) == [name |-> r.Variable, short_name |-> r.Code, unit |-> r.Unit]

RowFact(lr, year) ==
    [technology |-> RowTechnology(lr.row), country |-> RowCountry(lr.row),
     variable |-> RowVariable(lr.row), power |-> "0.0", energy |-> "0.0",
     source |-> lr.row.Source, notes |-> lr.row.Notes, currency |-> lr.row.Currency,
     year |-> year, price |-> lr.row.cells[year], _key |-> Entry_key]

RowFacts(lr) ==
    LET ys == PopulatedYears(lr) IN [j \in 1..Len(ys) |-> RowFact(lr, ys[j])]

RECURSIVE LogFacts(_)
LogFacts(l) == IF l = <<>> THEN <<>> ELSE RowFacts(Head(l)) \o LogFacts(Tail(l))

\* the facts emitted before logged row i
Offset(i) == Len(LogFacts(SubSeq(log, 1, i - 1)))

\* the last logged row whose key, under KeyOf, is key
LastWith(KeyOf(_), key) ==
    log[CHOOSE i \in 1..Len(log) :
            /\ KeyOf(log[i].row) = key
            /\ \A j \in (i + 1)..Len(log) : KeyOf(log[j].row) # key].row

TechnologyName(r) == r.Technology
VariableName(r) == r.Variable

IsPrefix(p, q) == Len(p) <= Len(q) /\ SubSeq(q, 1, Len(p)) = p

Range(q) == {q[i] : i \in 1..Len(q)}

Saved == last.op = "save_sqlite"

(***************************************************************************)
(* C1.  Referential integrity: the technology, country and variable of     *)
(* every fact, as key strings, are keys of DB.technologies, DB.countries   *)
(* and DB.variables; in the frames a save_sqlite call computes, and in the *)
(* tables it has written when it returns, every row of entries names a     *)
(* record of tech (by name), of country (by ISO3) and of vars (by name).   *)
(***************************************************************************)
RowsRefer(entries_t, country_t, vars_t, tech_t) ==
    \A i \in 1..Len(entries_t) :
        /\ \E j \in 1..Len(tech_t) : tech_t[j].name = entries_t[i].technology
        /\ \E j \in 1..Len(country_t) : country_t[j].ISO3 = entries_t[i].country
        /\ \E j \in 1..Len(vars_t) : vars_t[j].name = entries_t[i].variable

C1_ReferentialIntegrity ==
    /\ \A i \in 1..Len(db.entries) :
          /\ db.entries[i].technology.name \in Keys(db.technologies)
          /\ db.entries[i].country.ISO3 \in Keys(db.countries)
          /\ db.entries[i].variable.name \in Keys(db.variables)
    /\ Saved =>
          /\ RowsRefer(last.frames.entries, last.frames.country, last.frames.vars,
                       last.frames.tech)
          /\ \A i \in 1..Len(last.frames.entries) :
                /\ last.frames.entries[i].technology \in Keys(db.technologies)
                /\ last.frames.entries[i].country \in Keys(db.countries)
                /\ last.frames.entries[i].variable \in Keys(db.variables)
    /\ (Saved /\ last.exc = "none") =>
          LET a == disk[last.used]
          IN  RowsRefer(a["entries"], a["country"], a["vars"], a["tech"])

\* a completed export holding a fact whose ISO3 was missing and whose
\* technology record was overwritten by a later row
C1_Witness ==
    /\ Saved /\ last.exc = "none"
    /\ \E i \in 1..Len(db.entries) :
          /\ last.frames.entries[i].country = "Spain"
          /\ db.entries[i].technology # Lookup(db.technologies, db.entries[i].technology.name)

(***************************************************************************)
(* C2.  Every processed row costs one add_technology, one add_country and  *)
(* one add_variable call, whatever its cells; a row with K populated year  *)
(* cells appends exactly K facts, one per populated year column, with that *)
(* year, that cell as price, and power and energy 0.0.                     *)
(***************************************************************************)
C2_RowFanOut ==
    /\ calls.add_technology = Len(log)
    /\ calls.add_country = Len(log)
    /\ calls.add_variable = Len(log)
    /\ calls.add_entry = Len(db.entries)
    /\ Len(db.entries) = Offset(Len(log) + 1)
    /\ \A i \in 1..Len(log) :
          LET ys == PopulatedYears(log[i])
              K == Cardinality({y \in YearColumns :
                                   /\ \E c \in Range(log[i].columns) :
                                          c.type = "int" /\ c.value = y
                                   /\ log[i].row.cells[y] # NaN})
          IN  /\ Len(ys) = K
              /\ \A j \in 1..K :
                    LET e == db.entries[Offset(i) + j]
                    IN  /\ e.year = ys[j]
                        /\ e.price = log[i].row.cells[ys[j]]
                        /\ e.power = "0.0"
                        /\ e.energy = "0.0"

\* a row with no populated year cell and a row with two have been processed
C2_Witness ==
    \E i, j \in 1..Len(log) :
        /\ Len(PopulatedYears(log[i])) = 0
        /\ Len(PopulatedYears(log[j])) = 2
        /\ calls.add_country = 2

(***************************************************************************)
(* C3.  Last write wins: each dimension dict holds exactly one record per  *)
(* natural key seen in the processed rows, and that record is the one      *)
(* built from the last processed row with that key, field by field.        *)
(***************************************************************************)
OnePerKey(d, keys) == Keys(d) = keys /\ Cardinality(keys) = Len(d)

C3_LastWriteWins ==
    /\ OnePerKey(db.technologies, {log[i].row.Technology : i \in 1..Len(log)})
    /\ OnePerKey(db.countries, {RowCountryKey(log[i].row) : i \in 1..Len(log)})
    /\ OnePerKey(db.variables, {log[i].row.Variable : i \in 1..Len(log)})
    /\ \A k \in Keys(db.technologies) :
          Lookup(db.technologies, k) = RowTechnology(LastWith(TechnologyName, k))
    /\ \A k \in Keys(db.countries) :
          Lookup(db.countries, k) = RowCountry(LastWith(RowCountryKey, k))
    /\ \A k \in Keys(db.variables) :
          Lookup(db.variables, k) = RowVariable(LastWith(VariableName, k))

\* two rows with the same Technology and different Category: one record,
\* with the second row's category
C3_Witness ==
    /\ Len(log) = 2
    /\ log[1].row.Technology = log[2].row.Technology
    /\ log[1].row.Category # log[2].row.Category
    /\ Len(db.technologies) = 1
    /\ db.technologies[1].v.category = log[2].row.Category

(***************************************************************************)
(* C4.  The Country record built from a row has ISO2 = the country name    *)
(* when the ISO2 cell is missing and ISO3 = the country name when the ISO3 *)
(* cell is missing, and the cell itself otherwise; no record in            *)
(* DB.countries whose name is present has a missing ISO2 or ISO3.          *)
(***************************************************************************)
C4_MissingIsoFallback ==
    /\ \A i \in 1..Len(db.countries) :
          LET c == db.countries[i].v
          IN  c.name # NaN => (c.ISO2 # NaN /\ c.ISO3 # NaN /\ db.countries[i].k = c.ISO3)
    /\ \A i \in 1..Len(log) :
          LET r == log[i].row
          IN  /\ \A j \in 1..Len(PopulatedYears(log[i])) :
                    LET c == db.entries[Offset(i) + j].country
                    IN  /\ c.name = r.Country
                        /\ c.ISO2 = (IF r.ISO2 = NaN THEN r.Country ELSE r.ISO2)
                        /\ c.ISO3 = (IF r.ISO3 = NaN THEN r.Country ELSE r.ISO3)
              /\ i = Len(log) =>
                    LET c == Lookup(db.countries, RowCountryKey(r))
                    IN  /\ c.name = r.Country
                        /\ c.ISO2 = (IF r.ISO2 = NaN THEN r.Country ELSE r.ISO2)
                        /\ c.ISO3 = (IF r.ISO3 = NaN THEN r.Country ELSE r.ISO3)

\* a row with both codes missing and a populated year has been processed
C4_Witness ==
    \E i \in 1..Len(db.entries) :
        /\ db.entries[i].country.ISO2 = "Spain"
        /\ db.entries[i].country.ISO3 = "Spain"
        /\ "Spain" \in Keys(db.countries)

(***************************************************************************)
(* C5.  FIFO: DB.entries only grows at its end, it is the concatenation,   *)
(* in processing order of the rows and in column order of the years within *)
(* a row, of the facts of the populated year cells (duplicates kept), and  *)
(* the entries frame save_sqlite computes has these facts in this order.   *)
(***************************************************************************)
SameFact(x, e) ==
    /\ x.technology = e.technology.name
    /\ x.country = e.country.ISO3
    /\ x.variable = e.variable.name
    /\ x.power = e.power /\ x.energy = e.energy /\ x.source = e.source
    /\ x.notes = e.notes /\ x.currency = e.currency
    /\ x.year = e.year /\ x.price = e.price

C5_Fifo ==
    /\ [](/\ db.entries = LogFacts(log)
          /\ Saved =>
                /\ Len(last.frames.entries) = Len(db.entries)
                /\ \A i \in 1..Len(db.entries) :
                      SameFact(last.frames.entries[i], db.entries[i])
          /\ (Saved /\ last.exc = "none") =>
                disk[last.used]["entries"] = last.frames.entries)
    /\ [][IsPrefix(db.entries, db.entries')]_vars

\* an export of three facts, the first two from a row whose year columns
\* stand in the order 2021, 2020, the third equal to the first or second
C5_Witness ==
    /\ Saved /\ last.exc = "none"
    /\ Len(last.frames.entries) >= 3
    /\ last.frames.entries[1].year = 2021
    /\ last.frames.entries[2].year = 2020
    /\ last.frames.entries[3] \in {last.frames.entries[1], last.frames.entries[2]}


(***************************************************************************)
(* C6.  Any two distinct facts in DB.entries, and any two distinct rows of *)
(* the entries frame save_sqlite computes, have different _key values.     *)
(***************************************************************************)
KeysDiffer(q) == \A i, j \in 1..Len(q) : i # j => q[i]._key # q[j]._key

C6_KeysUnique == KeysDiffer(db.entries) /\ (Saved => KeysDiffer(last.frames.entries))

(***************************************************************************)
(* C7.  __main__ fails fast: while the list holds a file that does not     *)
(* exist or is neither .csv nor .xlsx, the loop does not get past it,      *)
(* save_sqlite is not called and the disk is as the run found it; the      *)
(* add_file call on such a file raises and changes nothing; once an        *)
(* exception is raised no further step is taken.                           *)
(***************************************************************************)
HasSuffix(s, suffix) ==
    \E p \in {SubSeq(s, 1, n) : n \in 0..Len(s)} : s = p \o suffix

BadFile(f) ==
    \/ f \notin {FileA, FileB, FileC}
    \/ ~(HasSuffix(f, DotCsv) \/ HasSuffix(f, DotXlsx))

RECURSIVE RowsOfFiles(_)
RowsOfFiles(fs) ==
    IF fs = <<>> THEN <<>> ELSE LogOf(FileSystem[Head(fs)]) \o RowsOfFiles(Tail(fs))

C7_FailFast ==
    /\ [](/\ \A i \in 1..Len(files) :
                BadFile(files[i]) =>
                    /\ idx <= i
                    /\ pc \in {"loop", "error"}
                    /\ calls.save_sqlite = 0
                    /\ disk \in InitialDisks(Gneste)
          /\ (pc = "error" /\ last.op = "add_file") =>
                /\ BadFile(files[idx])
                /\ last.exc = (IF files[idx] \in {FileD, FileE}
                               THEN "File not exist" ELSE "File type not supported")
                /\ log = RowsOfFiles(SubSeq(files, 1, idx - 1)))
    /\ [][(pc = "loop" /\ BadFile(files[idx])) =>
              (pc' = "error" /\ UNCHANGED <<db, log, disk, idx>>)]_vars
    /\ [][pc # "error"]_vars

\* the first of two files is of another type: the run ended there, the
\* second file, a good one, was not read
C7_Witness ==
    /\ pc = "error"
    /\ last.exc = "File type not supported"
    /\ idx = 1
    /\ Len(files) = 2
    /\ ~BadFile(files[2])
    /\ log = <<>>

(***************************************************************************)
(* C8.  As claimed: save_sqlite is all or nothing; a call that raised has  *)
(* written none of its four tables, a call that returned has written all.  *)
(***************************************************************************)
TableOrder == <<"country", "vars", "tech", "entries">>

C8_AtomicExport ==
    Saved => IF last.exc # "none"
             THEN last.written = <<>>
             ELSE Range(last.written) = TableNames

(***************************************************************************)
(* C8, amended.  save_sqlite writes the tables one at a time, in the order *)
(* country, vars, tech, entries, each write taking effect on its own: the  *)
(* tables written are a prefix of that order and hold the frames computed; *)
(* the call returns iff all four were written; when it raises, the next    *)
(* table in the order is the refused one (it existed already, or its frame *)
(* is empty), and it and the later ones are as they were before the call.  *)
(***************************************************************************)
SaveStep == calls'.save_sqlite # calls.save_sqlite

C8_PrefixExport ==
    [][SaveStep =>
          LET w == last'.written
              f == last'.used
              old == IF f \in DOMAIN disk THEN disk[f] ELSE NoTables
          IN  /\ DOMAIN disk' = DOMAIN disk \cup {f}
              /\ \A g \in DOMAIN disk \ {f} : disk'[g] = disk[g]
              /\ IsPrefix(w, TableOrder)
              /\ (last'.exc = "none") <=> (w = TableOrder)
              /\ \A t \in Range(w) :
                    /\ t \notin DOMAIN old
                    /\ disk'[f][t] = last'.frames[t]
              /\ \A t \in TableNames \ Range(w) :
                    /\ (t \in DOMAIN disk'[f]) <=> (t \in DOMAIN old)
                    /\ t \in DOMAIN old => disk'[f][t] = old[t]
              /\ last'.exc # "none" =>
                    LET t == TableOrder[Len(w) + 1]
                    IN  t \in DOMAIN old \/ last'.frames[t] = <<>>]_vars

\* a call that raised after it had written country and vars
C8_Witness ==
    /\ Saved
    /\ last.exc = "ValueError"
    /\ last.written = <<"country", "vars">>
    /\ DOMAIN disk[last.used] = {"country", "vars", "tech"}

(***************************************************************************)
(* C9.  The name save_sqlite uses ends in ".sqlite": a name without that   *)
(* ending gets exactly ".sqlite" appended, a name with it is used as it    *)
(* is, and normalising the result again changes nothing.                   *)
(***************************************************************************)
C9_OutputNaming ==
    /\ Len(fname) >= 2 =>
          /\ HasSuffix(fname[2], DotSqlite)
          /\ HasSuffix(fname[1], DotSqlite) => fname[2] = fname[1]
          /\ ~HasSuffix(fname[1], DotSqlite) => fname[2] = fname[1] \o DotSqlite
    /\ Len(fname) >= 3 => fname[3] = fname[2]

\* "db" became "db.sqlite" and stayed so
C9_Witness ==
    /\ Len(fname) = 3
    /\ fname[1] = <<"d", "b">>
    /\ fname[2] = <<"d", "b", ".", "s", "q", "l", "i", "t", "e">>

(***************************************************************************)
(* C10.  save_sqlite leaves the DB object as it was: the three dicts and   *)
(* the entries list are unchanged, each fact still holds its Technology,   *)
(* Country and Variable records, and a save_sqlite call that follows       *)
(* another computes the same four frames.                                  *)
(***************************************************************************)
C10_SaveReadOnly ==
    [][SaveStep =>
          /\ db' = db
          /\ \A i \in 1..Len(db'.entries) :
                LET e == db'.entries[i]
                IN  /\ DOMAIN e.technology = {"name", "ID", "category"}
                    /\ DOMAIN e.country = {"name", "ISO2", "ISO3", "continent"}
                    /\ DOMAIN e.variable = {"name", "short_name", "unit"}
          /\ Saved => last'.frames = last.frames]_vars

\* a second save_sqlite call on a DB that holds facts
C10_Witness ==
    /\ Saved
    /\ calls.save_sqlite = 2
    /\ Len(db.entries) >= 1
    /\ Len(last.frames.entries) = Len(db.entries)

=============================================================================
